---- MODULE Spec2Model ----
(***************************************************************************)
(* Buffer transcoding between flat row-major host buffers and the owned    *)
(* NumpyVector / NumpyMatrix objects (matrix.cpp, vector.cpp), the table   *)
(* writers' WriteData convenience path (tables.hpp) and the numeric        *)
(* backend selection of kaldi-blas.h.                                      *)
(*                                                                         *)
(* Memory is modelled as 1-based sequences of integers; a pointer plus an  *)
(* element offset p + k is the pair (sequence, k).  A cell of storage that *)
(* was allocated and never written holds 0 or 1; source buffers hold       *)
(* values >= 101 and a destination buffer is handed over holding values    *)
(* 901.., so the origin of every element that shows up is identifiable.    *)
(***************************************************************************)
EXTENDS Integers, Sequences, FiniteSets, TLC

VARIABLES mat, vec, matSet, vecSet, call, store, input, wlog,
          defined, pc, errors, branch, blasint

vars == <<mat, vec, matSet, vecSet, call, store, input, wlog,
          defined, pc, errors, branch, blasint>>

\* ------------------------------------------------------------------ bounds
\* largest row count and column count a caller passes
MaxDim == 2
\* largest vector length a caller passes
MaxLen == 2
\* largest number of padding elements the allocator adds to a row
MaxPad == 1
\* number of distinct source buffers per length
NumBufs == 2
\* number of Write calls a table writer receives
MaxStore == 2

\* ------------------------------------------------------------ host buffers
\* the k-th source buffer of n elements: element i (1-based) is 100*k + i
Ramp(k, n) == [i \in 1..n |-> 100 * k + i]

\* source buffers of n elements a caller may hand to SetData / WriteData
Buffers(n) == {Ramp(k, n) : k \in 1..NumBufs}

\* destination buffer of n elements as the caller allocated it
HostBuffer(n) == [i \in 1..n |-> 900 + i]

Keys == {"utt1", "utt2"}

\* ------------------------------------------------------------------ memcpy
\* std::memcpy(dst + dOff, src + sOff, n * sizeof(Real)); yields the new dst.
\* With n = 0 nothing is copied, also when dst or src is the NULL block <<>>
\* of an empty vector or matrix (SetData does not skip that call).
\* A read beyond the source block yields whatever lies there, written 0 like
\* a cell never written; Touched records the cells so that staying inside
\* the blocks is something the properties state.
Memcpy(dst, dOff, src, sOff, n) ==
  [i \in DOMAIN dst |->
     IF (i - dOff) \in 1..n
       THEN IF (sOff + (i - dOff)) \in DOMAIN src
              THEN src[sOff + (i - dOff)] ELSE 0
       ELSE dst[i]]

\* the 1-based cells p + off .. p + off + n - 1 a memcpy of n elements touches
Touched(off, n) == {off + k : k \in 1..n}

\* ------------------------------------------------- kaldi::Vector<Real>
\* default-constructed vector: dim_ = 0, data_ = NULL
DefaultVector == [dim |-> 0, data |-> <<>>]

\* a block of n elements as the allocator hands it out: its cells hold
\* unspecified values, here all 0 (untouched pages) or all 1 (a freed block)
Allocations(n) == {[i \in 1..n |-> g] : g \in {0, 1}}

\* kaldi::Vector<Real>::Resize(len, kUndefined)
VecResize(v, len) ==
  IF v.dim = len /\ len # 0 THEN {v}
  ELSE {[dim |-> len, data |-> d] : d \in Allocations(len)}

\* ------------------------------------------------- NumpyVector<Real>
\* SetData as it would be without the call of Resize
VecSetData_NoResize(v, vec_in, len) ==
  {[v EXCEPT !.data = Memcpy(v.data, 0, vec_in, 0, len)]}

\* NumpyVector<Real>::SetData(vec_in, len): the vectors it can leave
VecSetData(v, vec_in, len) ==
  LET resized == IF v.dim # len THEN VecResize(v, len) ELSE {v}
  IN  {[w EXCEPT !.data = Memcpy(w.data, 0, vec_in, 0, len)] : w \in resized}

\* ReadDataInto as it would be with Dim() < len for Dim() != len
VecReadDataInto_AtLeast(v, len, vec_inout) ==
  LET none == [ret |-> FALSE, out |-> vec_inout, written |-> {},
               srcread |-> {}, obj |-> v]
  IN  IF v.dim < len THEN none
      ELSE IF len = 0 THEN [none EXCEPT !.ret = TRUE]
      ELSE [none EXCEPT !.ret = TRUE,
                        !.out = Memcpy(vec_inout, 0, v.data, 0, len),
                        !.written = Touched(0, len),
                        !.srcread = Touched(0, len)]

\* ReadDataInto as it would be with the arguments of memcpy exchanged
VecReadDataInto_Swapped(v, len, vec_inout) ==
  LET none == [ret |-> FALSE, out |-> vec_inout, written |-> {},
               srcread |-> {}, obj |-> v]
  IN  IF v.dim # len THEN none
      ELSE IF len = 0 THEN [none EXCEPT !.ret = TRUE]
      ELSE [none EXCEPT !.ret = TRUE,
                        !.obj = [v EXCEPT !.data = Memcpy(v.data, 0, vec_inout, 0, len)]]

\* NumpyVector<Real>::ReadDataInto(len, vec_inout)
\* the return value, the destination buffer afterwards, the destination
\* cells written, the cells of the owned storage read, and the object itself
\* afterwards (the method is const: no member is assigned)
VecReadDataInto(v, len, vec_inout) ==
  LET none == [ret |-> FALSE, out |-> vec_inout, written |-> {},
               srcread |-> {}, obj |-> v]
  IN  IF v.dim # len THEN none
      ELSE IF len = 0 THEN [none EXCEPT !.ret = TRUE]
      ELSE [none EXCEPT !.ret = TRUE,
                        !.out = Memcpy(vec_inout, 0, v.data, 0, len),
                        !.written = Touched(0, len),
                        !.srcread = Touched(0, len)]

\* ------------------------------------------------- kaldi::Matrix<Real>
\* default-constructed matrix: no rows, no columns, stride 0, data_ = NULL
DefaultMatrix == [rows |-> 0, cols |-> 0, stride |-> 0, data |-> <<>>]

\* kaldi::Matrix<Real>::Resize(rows, cols, kUndefined): the old block is
\* destroyed and a block of rows * stride elements is allocated, where the
\* stride is cols plus alignment padding; (0, 0) holds no block.  A shape
\* with exactly one zero dimension fails Kaldi's assertion: no matrix results.
MatResize(m, rows, cols) ==
  IF m.rows = rows /\ m.cols = cols /\ rows * cols # 0 THEN {m}
  ELSE IF rows = 0 /\ cols = 0 THEN {DefaultMatrix}
  ELSE IF rows * cols = 0 THEN {}
  ELSE UNION {{[rows |-> rows, cols |-> cols, stride |-> s, data |-> d] :
                  d \in Allocations(rows * s)} :
               s \in cols..(cols + MaxPad)}

\* ------------------------------------------------- NumpyMatrix<Real>
\* the row-by-row branch of SetData: for (row = 0; row < dim_row; ++row)
\*   memcpy(data + row * stride, matrix_in + row * dim_col, dim_col)
RECURSIVE SetDataRows(_, _, _, _, _, _)
SetDataRows(data, stride, matrix_in, dim_row, dim_col, row) ==
  IF row < dim_row
    THEN SetDataRows(Memcpy(data, row * stride, matrix_in, row * dim_col, dim_col),
                     stride, matrix_in, dim_row, dim_col, row + 1)
    ELSE data

\* the copy of SetData as it would be with the bulk copy whatever the stride
SetDataCopy_AlwaysBulk(m, matrix_in, dim_row, dim_col) ==
  [m EXCEPT !.data = Memcpy(m.data, 0, matrix_in, 0, dim_row * dim_col)]

\* the copy of SetData once the shape is settled: bulk when the stride
\* equals dim_col, row by row otherwise
SetDataCopy(m, matrix_in, dim_row, dim_col) ==
  IF m.stride = dim_col
    THEN [m EXCEPT !.data = Memcpy(m.data, 0, matrix_in, 0, dim_row * dim_col)]
    ELSE [m EXCEPT !.data = SetDataRows(m.data, m.stride, matrix_in,
                                        dim_row, dim_col, 0)]

\* SetData as it would be if it returned early when the shape already fits
RECURSIVE MatSetData_NoCopyIfSameShape(_, _, _, _)
MatSetData_NoCopyIfSameShape(m, matrix_in, dim_row, dim_col) ==
  IF (dim_row # 0 \/ dim_col # 0) /\ dim_row * dim_col = 0
    THEN MatSetData_NoCopyIfSameShape(m, matrix_in, 0, 0)
    ELSE IF m.rows # dim_row \/ m.cols # dim_col
           THEN {SetDataCopy(w, matrix_in, dim_row, dim_col) :
                   w \in MatResize(m, dim_row, dim_col)}
           ELSE {m}

\* SetData as it would be resizing only when both dimensions differ
RECURSIVE MatSetData_AndResize(_, _, _, _)
MatSetData_AndResize(m, matrix_in, dim_row, dim_col) ==
  IF (dim_row # 0 \/ dim_col # 0) /\ dim_row * dim_col = 0
    THEN MatSetData_AndResize(m, matrix_in, 0, 0)
    ELSE LET resized == IF m.rows # dim_row /\ m.cols # dim_col
                          THEN MatResize(m, dim_row, dim_col)
                          ELSE {m}
         IN  {SetDataCopy(w, matrix_in, dim_row, dim_col) : w \in resized}

\* NumpyMatrix<Real>::SetData(matrix_in, dim_row, dim_col): the matrices it
\* can leave (one per outcome of the allocation)
RECURSIVE MatSetData(_, _, _, _)
MatSetData(m, matrix_in, dim_row, dim_col) ==
  IF (dim_row # 0 \/ dim_col # 0) /\ dim_row * dim_col = 0
    THEN MatSetData(m, matrix_in, 0, 0)
    ELSE LET resized == IF m.rows # dim_row \/ m.cols # dim_col
                          THEN MatResize(m, dim_row, dim_col)
                          ELSE {m}
         IN  {SetDataCopy(w, matrix_in, dim_row, dim_col) : w \in resized}

\* the row-by-row branch of ReadDataInto: for (row = 0; row < dim_row; ++row)
\*   memcpy(matrix_inout + row * dim_col, data + row * stride, dim_col)
RECURSIVE ReadDataRows(_, _, _, _, _, _)
ReadDataRows(acc, data, stride, dim_row, dim_col, row) ==
  IF row < dim_row
    THEN ReadDataRows(
           [acc EXCEPT
              !.out = Memcpy(acc.out, row * dim_col, data, row * stride, dim_col),
              !.written = acc.written \cup Touched(row * dim_col, dim_col),
              !.srcread = acc.srcread \cup Touched(row * stride, dim_col)],
           data, stride, dim_row, dim_col, row + 1)
    ELSE acc

\* ReadDataInto as it would be comparing only the row counts
MatReadDataInto_RowsOnly(m, dim_row, dim_col, matrix_inout) ==
  LET none == [ret |-> FALSE, out |-> matrix_inout, written |-> {},
               srcread |-> {}, obj |-> m]
  IN  IF dim_row * dim_col = 0
        THEN [none EXCEPT !.ret = (m.rows = 0 \/ m.cols = 0)]
      ELSE IF m.rows # dim_row
        THEN none
      ELSE IF m.stride = dim_col
        THEN [none EXCEPT !.ret = TRUE,
                !.out = Memcpy(matrix_inout, 0, m.data, 0, dim_row * dim_col),
                !.written = Touched(0, dim_row * dim_col),
                !.srcread = Touched(0, dim_row * dim_col)]
      ELSE ReadDataRows([none EXCEPT !.ret = TRUE], m.data, m.stride,
                        dim_row, dim_col, 0)

\* ReadDataInto as it would be without the rule for a query of no element
MatReadDataInto_NoEmptyRule(m, dim_row, dim_col, matrix_inout) ==
  LET none == [ret |-> FALSE, out |-> matrix_inout, written |-> {},
               srcread |-> {}, obj |-> m]
  IN  IF m.rows # dim_row \/ m.cols # dim_col
        THEN none
      ELSE IF m.stride = dim_col
        THEN [none EXCEPT !.ret = TRUE,
                !.out = Memcpy(matrix_inout, 0, m.data, 0, dim_row * dim_col),
                !.written = Touched(0, dim_row * dim_col),
                !.srcread = Touched(0, dim_row * dim_col)]
      ELSE ReadDataRows([none EXCEPT !.ret = TRUE], m.data, m.stride,
                        dim_row, dim_col, 0)

\* NumpyMatrix<Real>::ReadDataInto(dim_row, dim_col, matrix_inout): the return
\* value, the destination buffer afterwards, the destination cells written,
\* the cells of the owned storage read, and the object itself afterwards
\* (the method is const: no member is assigned)
MatReadDataInto(m, dim_row, dim_col, matrix_inout) ==
  LET none == [ret |-> FALSE, out |-> matrix_inout, written |-> {},
               srcread |-> {}, obj |-> m]
  IN  IF dim_row * dim_col = 0
        THEN [none EXCEPT !.ret = (m.rows = 0 \/ m.cols = 0)]
      ELSE IF m.rows # dim_row \/ m.cols # dim_col
        THEN none
      ELSE IF m.stride = dim_col
        THEN [none EXCEPT !.ret = TRUE,
                !.out = Memcpy(matrix_inout, 0, m.data, 0, dim_row * dim_col),
                !.written = Touched(0, dim_row * dim_col),
                !.srcread = Touched(0, dim_row * dim_col)]
      ELSE ReadDataRows([none EXCEPT !.ret = TRUE], m.data, m.stride,
                        dim_row, dim_col, 0)

\* ------------------------------------------------------------ the calls
\* the last call made on an object or a writer, with what it returned
NoCall ==
  [op |-> "none", key |-> "", buf |-> <<>>, rows |-> 0, cols |-> 0,
   ret |-> FALSE, out |-> <<>>, written |-> {}, srcread |-> {}]

\* a call of SetData(buf, rows, cols) / SetData(buf, len)
SetCall(op, buf, rows, cols) ==
  [NoCall EXCEPT !.op = op, !.buf = buf, !.rows = rows, !.cols = cols]

\* a call of ReadDataInto(rows, cols, out) / ReadDataInto(len, out)
ReadCall(op, rows, cols, res) ==
  [NoCall EXCEPT !.op = op, !.rows = rows, !.cols = cols, !.ret = res.ret,
                 !.out = res.out, !.written = res.written,
                 !.srcread = res.srcread]

\* shapes a caller passes, and the buffers that go with a shape: rows * cols
\* elements, or a pointer to anything when the shape holds no element
Dims == 0..MaxDim

SourceBuffers(rows, cols) ==
  IF rows * cols # 0 THEN Buffers(rows * cols)
  ELSE Buffers(0) \cup Buffers(1)

blasVars == <<defined, pc, errors, branch, blasint>>
writerVars == <<store, input, wlog>>

\* mat.SetData(B, r, c)
MatrixSetDataWith(B, r, c) ==
  \E m2 \in MatSetData(mat, B, r, c) :
    /\ mat' = m2
    /\ matSet' = SetCall("MatSetData", B, r, c)
    /\ call' = matSet'
    /\ UNCHANGED <<vec, vecSet, writerVars, blasVars>>

\* a caller calls SetData on the matrix
MatrixSetData ==
  \E r \in Dims, c \in Dims :
    \E B \in SourceBuffers(r, c) : MatrixSetDataWith(B, r, c)

\* a caller calls ReadDataInto on the matrix with a buffer of rows * cols
MatrixReadDataInto ==
  \E r \in Dims, c \in Dims :
    LET res == MatReadDataInto(mat, r, c, HostBuffer(r * c))
    IN  /\ call' = ReadCall("MatReadDataInto", r, c, res)
        /\ mat' = res.obj
        /\ UNCHANGED <<vec, matSet, vecSet, writerVars, blasVars>>

\* vec.SetData(B, n)
VectorSetDataWith(B, n) ==
  \E v2 \in VecSetData(vec, B, n) :
    /\ vec' = v2
    /\ vecSet' = SetCall("VecSetData", B, n, 0)
    /\ call' = vecSet'
    /\ UNCHANGED <<mat, matSet, writerVars, blasVars>>

\* a caller calls SetData on the vector
VectorSetData ==
  \E n \in 0..MaxLen :
    \E B \in Buffers(n) : VectorSetDataWith(B, n)

\* a caller calls ReadDataInto on the vector with a buffer of len elements
VectorReadDataInto ==
  \E n \in 0..MaxLen :
    LET res == VecReadDataInto(vec, n, HostBuffer(n))
    IN  /\ call' = ReadCall("VecReadDataInto", n, 0, res)
        /\ vec' = res.obj
        /\ UNCHANGED <<mat, matSet, vecSet, writerVars, blasVars>>

\* no writer call was asked for
NoInput == [holder |-> "none", key |-> "", buf |-> <<>>, rows |-> 0, cols |-> 0]

\* both objects default-constructed, nothing written, nothing preprocessed
Init ==
  /\ mat = DefaultMatrix
  /\ vec = DefaultVector
  /\ matSet = NoCall
  /\ vecSet = NoCall
  /\ call = NoCall
  /\ store = <<>>
  /\ input = NoInput
  /\ wlog = <<>>
  /\ defined = {}
  /\ pc = "idle"
  /\ errors = {}
  /\ branch = <<"none", "">>
  /\ blasint = {}

Next ==
  \/ MatrixSetData
  \/ MatrixReadDataInto
  \/ VectorSetData
  \/ VectorReadDataInto

Spec == Init /\ [][Next]_vars

\* ------------------------------------------------------------ table writers
\* kaldi::TableWriter<Holder>::Write(key, value): the external store is handed
\* one more record
TableWrite(st, key, value) == Append(st, [key |-> key, value |-> value])

\* what the holder serialises of a vector: its dimension and its elements
VecValue(v) == [dims |-> <<v.dim>>, elems |-> [k \in 1..v.dim |-> v.data[k]]]

\* what the holder serialises of a matrix: its shape and its elements row by
\* row, the padding of the rows left out
MatValue(m) ==
  [dims |-> <<m.rows, m.cols>>,
   elems |-> [k \in 1..(m.rows * m.cols) |->
                m.data[((k - 1) \div m.cols) * m.stride + ((k - 1) % m.cols) + 1]]]

\* ExtNumpyVectorWriter<Real>::Write(key, value)
VecWriterWrite(st, key, value) == TableWrite(st, key, VecValue(value))

\* ExtNumpyVectorWriter<Real>::WriteData(key, vec_in, len): the stores it can
\* leave (one per outcome of the allocation inside SetData)
VecWriteData(st, key, vec_in, len) ==
  {VecWriterWrite(st, key, vector) : vector \in VecSetData(DefaultVector, vec_in, len)}

\* ExtNumpyMatrixWriter<Real>::Write(key, value)
MatWriterWrite(st, key, value) == TableWrite(st, key, MatValue(value))

\* WriteData as it would be with dim_row and dim_col exchanged in SetData
MatWriteData_Swapped(st, key, matrix_in, dim_row, dim_col) ==
  {MatWriterWrite(st, key, matrix) :
     matrix \in MatSetData(DefaultMatrix, matrix_in, dim_col, dim_row)}

\* ExtNumpyMatrixWriter<Real>::WriteData(key, matrix_in, dim_row, dim_col): the
\* stores it can leave (one per outcome of the allocation inside SetData)
MatWriteData(st, key, matrix_in, dim_row, dim_col) ==
  {MatWriterWrite(st, key, matrix) :
     matrix \in MatSetData(DefaultMatrix, matrix_in, dim_row, dim_col)}

\* a call on a table writer
WriterCall(op, key, buf, rows, cols) ==
  [NoCall EXCEPT !.op = op, !.key = key, !.buf = buf, !.rows = rows, !.cols = cols]

\* the key, buffer and shape a caller wants written, to a table of vectors
\* or to a table of matrices
WriterInputs ==
  UNION {
    {[holder |-> "matrix", key |-> k, buf |-> B, rows |-> r, cols |-> c] :
       B \in SourceBuffers(r, c)} : k \in Keys, r \in Dims, c \in Dims}
  \cup
  UNION {
    {[holder |-> "vector", key |-> k, buf |-> B, rows |-> n, cols |-> 0] :
       B \in Buffers(n)} : k \in Keys, n \in 0..MaxLen}

\* the caller populates its default-constructed matrix from the input
WriterMatrixSetData ==
  /\ input.holder = "matrix"
  /\ matSet.op = "none"
  /\ MatrixSetDataWith(input.buf, input.rows, input.cols)

\* the caller writes its matrix: writer.Write(key, mat)
WriterMatrixWrite ==
  /\ input.holder = "matrix"
  /\ matSet.op = "MatSetData"
  /\ Len(store) < MaxStore
  /\ store' = MatWriterWrite(store, input.key, mat)
  /\ wlog' = Append(wlog, "Write")
  /\ call' = WriterCall("MatWrite", input.key, <<>>, 0, 0)
  /\ UNCHANGED <<mat, vec, matSet, vecSet, input, blasVars>>

\* the caller hands the buffer over: writer.WriteData(key, buf, rows, cols)
WriterMatrixWriteData ==
  /\ input.holder = "matrix"
  /\ Len(store) < MaxStore
  /\ \E st2 \in MatWriteData(store, input.key, input.buf, input.rows, input.cols) :
       store' = st2
  /\ wlog' = Append(wlog, "WriteData")
  /\ call' = WriterCall("MatWriteData", input.key, input.buf, input.rows, input.cols)
  /\ UNCHANGED <<mat, vec, matSet, vecSet, input, blasVars>>

\* the caller populates its default-constructed vector from the input
WriterVectorSetData ==
  /\ input.holder = "vector"
  /\ vecSet.op = "none"
  /\ VectorSetDataWith(input.buf, input.rows)

\* the caller writes its vector: writer.Write(key, vec)
WriterVectorWrite ==
  /\ input.holder = "vector"
  /\ vecSet.op = "VecSetData"
  /\ Len(store) < MaxStore
  /\ store' = VecWriterWrite(store, input.key, vec)
  /\ wlog' = Append(wlog, "Write")
  /\ call' = WriterCall("VecWrite", input.key, <<>>, 0, 0)
  /\ UNCHANGED <<mat, vec, matSet, vecSet, input, blasVars>>

\* the caller hands the buffer over: writer.WriteData(key, buf, len)
WriterVectorWriteData ==
  /\ input.holder = "vector"
  /\ Len(store) < MaxStore
  /\ \E st2 \in VecWriteData(store, input.key, input.buf, input.rows) :
       store' = st2
  /\ wlog' = Append(wlog, "WriteData")
  /\ call' = WriterCall("VecWriteData", input.key, input.buf, input.rows, 0)
  /\ UNCHANGED <<mat, vec, matSet, vecSet, input, blasVars>>

\* a writer over an empty store, a default-constructed object of the caller
\* and the input the caller wants written
InitWriter ==
  /\ mat = DefaultMatrix
  /\ vec = DefaultVector
  /\ matSet = NoCall
  /\ vecSet = NoCall
  /\ call = NoCall
  /\ store = <<>>
  /\ input \in WriterInputs
  /\ wlog = <<>>
  /\ defined = {}
  /\ pc = "idle"
  /\ errors = {}
  /\ branch = <<"none", "">>
  /\ blasint = {}

NextWriter ==
  \/ WriterMatrixSetData
  \/ WriterMatrixWrite
  \/ WriterMatrixWriteData
  \/ WriterVectorSetData
  \/ WriterVectorWrite
  \/ WriterVectorWriteData

SpecWriter == InitWriter /\ [][NextWriter]_vars

\* ------------------------------------------------------------ kaldi-blas.h
Backends == {"HAVE_CLAPACK", "HAVE_ATLAS", "HAVE_MKL", "HAVE_OPENBLAS", "HAVE_NOBLAS"}

\* the macros the header tests
Macros == Backends \cup {"__APPLE__", "_MSC_VER"}

\* the check as it was before HAVE_OPENBLAS and HAVE_NOBLAS were added to it
MultipleDefined_Old(D) ==
  \/ "HAVE_CLAPACK" \in D /\ ("HAVE_ATLAS" \in D \/ "HAVE_MKL" \in D)
  \/ "HAVE_ATLAS" \in D /\ "HAVE_MKL" \in D

\* the condition of the first #if, D being the set of macros defined
MultipleDefined(D) ==
  \/ "HAVE_CLAPACK" \in D /\ ("HAVE_ATLAS" \in D \/ "HAVE_MKL" \in D
                               \/ "HAVE_OPENBLAS" \in D \/ "HAVE_NOBLAS" \in D)
  \/ "HAVE_ATLAS" \in D /\ ("HAVE_MKL" \in D \/ "HAVE_OPENBLAS" \in D
                             \/ "HAVE_NOBLAS" \in D)
  \/ "HAVE_MKL" \in D /\ ("HAVE_OPENBLAS" \in D \/ "HAVE_NOBLAS" \in D)
  \/ "HAVE_OPENBLAS" \in D /\ "HAVE_NOBLAS" \in D

\* the branch of the #ifdef / #elif chain that is compiled, with the variant
\* of its includes; "error" for the #else branch
BackendBranch(D) ==
  IF "HAVE_ATLAS" \in D THEN <<"HAVE_ATLAS", "cblas+clapack">>
  ELSE IF "HAVE_CLAPACK" \in D
    THEN IF "__APPLE__" \in D THEN <<"HAVE_CLAPACK", "Accelerate">>
         ELSE <<"HAVE_CLAPACK", "cblas+f2c+clapack">>
  ELSE IF "HAVE_MKL" \in D THEN <<"HAVE_MKL", "mkl">>
  ELSE IF "HAVE_OPENBLAS" \in D
    THEN IF "_MSC_VER" \in D THEN <<"HAVE_OPENBLAS", "std::complex+cblas+lapacke">>
         ELSE <<"HAVE_OPENBLAS", "cblas+lapacke">>
  ELSE IF "HAVE_NOBLAS" \in D THEN <<"HAVE_NOBLAS", "enums">>
  ELSE <<"error", "">>

\* the types KaldiBlasInt is declared as by the trailing #ifdef blocks
BlasIntTypedefs(D) ==
  (IF "HAVE_OPENBLAS" \in D THEN {"int"} ELSE {})
  \cup (IF "HAVE_CLAPACK" \in D THEN {"integer"} ELSE {})
  \cup (IF "HAVE_MKL" \in D THEN {"MKL_INT"} ELSE {})
  \cup (IF "HAVE_NOBLAS" \in D THEN {"int"} ELSE {})

\* the preprocessor reaches the first #if: #error when it holds.  After an
\* #error a compiler either goes on through the file or gives up at once.
MultipleCheck ==
  /\ pc = "multiple_check"
  /\ IF MultipleDefined(defined)
       THEN /\ errors' = errors \cup {"more than one"}
            /\ pc' \in {"chain", "failed"}
       ELSE /\ errors' = errors
            /\ pc' = "chain"
  /\ UNCHANGED <<mat, vec, matSet, vecSet, call, writerVars, defined, branch, blasint>>

\* the preprocessor goes through the #ifdef / #elif chain
BackendChain ==
  /\ pc = "chain"
  /\ branch' = BackendBranch(defined)
  /\ IF branch'[1] = "error"
       THEN /\ errors' = errors \cup {"none"}
            /\ pc' \in {"typedefs", "failed"}
       ELSE /\ errors' = errors
            /\ pc' = "typedefs"
  /\ UNCHANGED <<mat, vec, matSet, vecSet, call, writerVars, defined, blasint>>

\* the preprocessor goes through the KaldiBlasInt blocks and the #endif
BlasTypedefs ==
  /\ pc = "typedefs"
  /\ blasint' = BlasIntTypedefs(defined)
  /\ pc' = IF errors = {} THEN "done" ELSE "failed"
  /\ UNCHANGED <<mat, vec, matSet, vecSet, call, writerVars, defined, errors, branch>>

\* the header is included with any set of the macros defined
InitBlas ==
  /\ mat = DefaultMatrix
  /\ vec = DefaultVector
  /\ matSet = NoCall
  /\ vecSet = NoCall
  /\ call = NoCall
  /\ store = <<>>
  /\ input = NoInput
  /\ wlog = <<>>
  /\ defined \in SUBSET Macros
  /\ pc = "multiple_check"
  /\ errors = {}
  /\ branch = <<"none", "">>
  /\ blasint = {}

NextBlas ==
  \/ MultipleCheck
  \/ BackendChain
  \/ BlasTypedefs

SpecBlas == InitBlas /\ [][NextBlas]_vars

\* ------------------------------------------------------------ properties
\* the first n elements of a source buffer, as a destination should hold them
Elems(buf, n) == [i \in 1..n |-> buf[i]]

\* C1: matrix round-trip. Whatever the matrix held before, once
\* SetData(B, rows, cols) was the last SetData, ReadDataInto(rows, cols, B')
\* returns true and B' holds the rows * cols elements of B in order, written
\* inside B' only: nothing of an earlier SetData or of the allocation shows.
C1_MatrixRoundTrip ==
  (/\ call.op = "MatReadDataInto"
   /\ matSet.op = "MatSetData"
   /\ call.rows = matSet.rows
   /\ call.cols = matSet.cols)
  => /\ call.ret
     /\ call.out = Elems(matSet.buf, call.rows * call.cols)
     /\ call.written \subseteq 1..(call.rows * call.cols)

\* C1 witness: a 2 x 2 round trip through padded storage whose padding still
\* holds what the freed block held
C1_Witness ==
  /\ call.op = "MatReadDataInto"
  /\ matSet.op = "MatSetData"
  /\ call.rows = 2 /\ matSet.rows = 2
  /\ call.cols = 2 /\ matSet.cols = 2
  /\ call.ret
  /\ call.out = matSet.buf
  /\ \E i \in DOMAIN mat.data : mat.data[i] = 1

\* C2: matrix shape-mismatch rejection. A query of a shape with elements that
\* differs from the stored shape returns false and leaves the destination as
\* the caller handed it over.
C2_ShapeMismatch ==
  (/\ call.op = "MatReadDataInto"
   /\ call.rows * call.cols # 0
   /\ <<call.rows, call.cols>> # <<mat.rows, mat.cols>>)
  => /\ ~call.ret
     /\ call.out = HostBuffer(call.rows * call.cols)
     /\ call.written = {}

\* C2 witness: a stored 2 x 1 matrix queried as 1 x 2 (same element count)
C2_Witness ==
  /\ call.op = "MatReadDataInto"
  /\ mat.rows = 2 /\ mat.cols = 1
  /\ call.rows = 1 /\ call.cols = 2
  /\ ~call.ret

\* C3: matrix shape invariant. The stored shape is the shape of the last
\* SetData, a shape with a zero dimension being stored as (0, 0); no stored
\* shape has exactly one zero dimension.
C3_ShapeInvariant ==
  /\ matSet.op = "none" => mat.rows = 0 /\ mat.cols = 0
  /\ matSet.op = "MatSetData" =>
       <<mat.rows, mat.cols>> =
         IF matSet.rows # 0 /\ matSet.cols # 0
           THEN <<matSet.rows, matSet.cols>> ELSE <<0, 0>>
  /\ (mat.rows = 0) <=> (mat.cols = 0)

\* C3 witness: SetData(B, 2, 0) with a buffer that holds an element, on a
\* matrix that a Read has just shown to be empty
C3_Witness ==
  /\ matSet.op = "MatSetData"
  /\ matSet.rows = 2 /\ matSet.cols = 0
  /\ Len(matSet.buf) = 1
  /\ mat = DefaultMatrix

\* C4: matrix empty-query rule. A query of a shape without elements returns
\* true exactly when the stored matrix has no row or no column, and writes
\* nothing.
C4_EmptyQuery ==
  (call.op = "MatReadDataInto" /\ call.rows * call.cols = 0)
  => /\ call.ret <=> (mat.rows = 0 \/ mat.cols = 0)
     /\ (mat.rows = 0 /\ mat.cols = 0) => call.ret
     /\ (mat.rows > 0 /\ mat.cols > 0) => ~call.ret
     /\ call.written = {}
     /\ call.out = HostBuffer(0)

\* C4 witness: ReadDataInto(2, 0, dest) succeeding on a matrix emptied by
\* SetData(B, 0, 2)
C4_Witness ==
  /\ call.op = "MatReadDataInto"
  /\ call.rows = 2 /\ call.cols = 0
  /\ call.ret
  /\ matSet.op = "MatSetData" /\ matSet.rows = 0 /\ matSet.cols = 2

\* C5: stride-independence. Whatever stride (>= cols) the storage has, source
\* element (i, j) sits at offset i * stride + j after SetData, and a
\* successful ReadDataInto hands back the source buffer, reading inside the
\* storage and never from a padding position.
C5_StrideIndependence ==
  /\ (matSet.op = "MatSetData" /\ matSet.rows * matSet.cols # 0) =>
       /\ mat.stride >= mat.cols
       /\ \A i \in 0..(matSet.rows - 1), j \in 0..(matSet.cols - 1) :
            mat.data[i * mat.stride + j + 1] = matSet.buf[i * matSet.cols + j + 1]
  /\ (call.op = "MatReadDataInto" /\ call.ret /\ call.rows * call.cols # 0) =>
       /\ matSet.op = "MatSetData"
       /\ call.out = matSet.buf
       /\ \A k \in call.srcread :
            k \in DOMAIN mat.data /\ ((k - 1) % mat.stride) < mat.cols

\* C5 witness: a 2 x 2 matrix with padded rows read back in full
C5_Witness ==
  /\ call.op = "MatReadDataInto"
  /\ call.ret
  /\ call.rows = 2 /\ call.cols = 2
  /\ mat.stride > mat.cols
  /\ Cardinality(call.srcread) = 4

\* C6: vector round-trip and dimension invariant. The stored dimension is the
\* length of the last SetData, and ReadDataInto of that length returns true
\* with the buffer of that SetData.
C6_VectorRoundTrip ==
  /\ vecSet.op = "none" => vec.dim = 0
  /\ vecSet.op = "VecSetData" => vec.dim = vecSet.rows
  /\ (/\ call.op = "VecReadDataInto"
      /\ vecSet.op = "VecSetData"
      /\ call.rows = vecSet.rows)
     => /\ call.ret
        /\ call.out = vecSet.buf

\* C6 witness: a vector of 2 elements read back after SetData
C6_Witness ==
  /\ call.op = "VecReadDataInto"
  /\ vecSet.op = "VecSetData"
  /\ call.rows = 2 /\ vecSet.rows = 2
  /\ call.out = vecSet.buf

\* C7: vector length check. ReadDataInto(length, dest) returns true exactly
\* when the stored dimension is length; when it returns false, and when
\* length is 0, dest is left as handed over (memcpy never reads it).
C7_VectorLengthCheck ==
  call.op = "VecReadDataInto"
  => /\ call.ret <=> (vec.dim = call.rows)
     /\ (~call.ret \/ call.rows = 0) =>
          /\ call.written = {}
          /\ call.srcread = {}
          /\ call.out = HostBuffer(call.rows)

\* C7 witness: a query of 1 element refused by a vector of 2
C7_Witness ==
  /\ call.op = "VecReadDataInto"
  /\ vec.dim = 2
  /\ call.rows = 1
  /\ ~call.ret

\* C9: ReadDataInto is read-only. A ReadDataInto call, on the vector or on
\* the matrix, returning true or false, leaves both objects as they were, and
\* a call repeated with the same arguments repeats its result.
C9_ReadOnly ==
  [][call'.op \in {"MatReadDataInto", "VecReadDataInto"} =>
       /\ mat' = mat
       /\ vec' = vec
       /\ (call.op = call'.op /\ call.rows = call'.rows /\ call.cols = call'.cols)
            => (call'.ret = call.ret /\ call'.out = call.out)]_vars

\* C9 witness: a successful read of a vector of 2 elements while the matrix
\* holds elements too
C9_Witness ==
  /\ call.op = "VecReadDataInto"
  /\ call.ret
  /\ call.rows = 2
  /\ mat.rows = 2 /\ mat.cols = 2

\* C8: writer convenience path. WriteData(key, buffer, shape) hands the store
\* exactly one record after the ones it held, under the same key and with
\* the same value as every record handed over by Write(key, value) for the
\* caller's own object populated by SetData(buffer, shape) and as every
\* record of an earlier WriteData of the same input; it leaves the caller's
\* objects alone.
C8_WriterConvenience ==
  [][call'.op \in {"MatWriteData", "VecWriteData"} =>
       /\ Len(store') = Len(store) + 1
       /\ SubSeq(store', 1, Len(store)) = store
       /\ store'[Len(store')].key = input.key
       /\ \A j \in DOMAIN store : store[j] = store'[Len(store')]
       /\ input.holder = "matrix" =>
            /\ store'[Len(store')].value.dims =
                 IF input.rows # 0 /\ input.cols # 0
                   THEN <<input.rows, input.cols>> ELSE <<0, 0>>
            /\ matSet.op = "MatSetData" =>
                 store'[Len(store')] = [key |-> input.key, value |-> MatValue(mat)]
       /\ input.holder = "vector" =>
            /\ store'[Len(store')].value.dims = <<input.rows>>
            /\ vecSet.op = "VecSetData" =>
                 store'[Len(store')] = [key |-> input.key, value |-> VecValue(vec)]
       /\ mat' = mat /\ vec' = vec /\ matSet' = matSet /\ vecSet' = vecSet]_vars

\* C8 witness: a 2 x 1 matrix written by Write from the caller's padded
\* matrix and then by WriteData
C8_Witness ==
  /\ input.holder = "matrix"
  /\ input.rows = 2 /\ input.cols = 1
  /\ mat.stride > mat.cols
  /\ wlog = <<"Write", "WriteData">>
  /\ store[1] = store[2]

\* the number of backend macros defined
NumBackends == Cardinality(defined \cap Backends)

\* C10: numeric backend selection. Preprocessing the header ends in an #error
\* exactly when the number of backend macros defined is not one; with exactly
\* one defined it runs through without error and the branch compiled is
\* that backend's.
C10_BackendSelection ==
  /\ pc \in {"done", "failed"} =>
       /\ (errors # {}) <=> (NumBackends # 1)
       /\ (pc = "failed") <=> (errors # {})
  /\ (pc = "done" /\ NumBackends = 1) =>
       /\ errors = {}
       /\ branch[1] \in defined

\* C10 witness: HAVE_OPENBLAS and HAVE_NOBLAS both defined, #error raised
C10_Witness ==
  /\ pc = "failed"
  /\ defined \cap Backends = {"HAVE_OPENBLAS", "HAVE_NOBLAS"}
  /\ "more than one" \in errors

====
